---- MODULE Spec2Model ----
(***************************************************************************)
(* The SpeedTest component of src/components/test-history.tsx (lines       *)
(* 58-596): one React component holding the run state, the three           *)
(* measurement stages and the history.                                     *)
(*                                                                         *)
(* A run of startAllTests is one async function.  Between two awaits its   *)
(* code runs without interleaving, so every action below is "one await     *)
(* completes, and the code runs on to the next await (or to the end of     *)
(* the finally block)".  The synchronous pieces are operators on a record  *)
(* s of all the variables, composed in the order of the code.              *)
(*                                                                         *)
(* Units.  Times are milliseconds, multiples of 100.  Byte counts are in   *)
(* units of 64 bytes (the largest unit dividing both 1 MiB and the         *)
(* 100,000,000-byte payload), so that the products of the rate formula fit *)
(* the checker's integers.  Numbers shown with toFixed(2) are integers in  *)
(* hundredths.                                                             *)
(*                                                                         *)
(* React.  The values ping, downloadSpeed, uploadSpeed and ipAddress that  *)
(* startAllTests reads in its catch and finally blocks are the constants   *)
(* of the render in which the clicked handler was created: `captured`.     *)
(* State updates made in the click handler are rendered before the next    *)
(* event is dispatched, and no handler is bound while isTesting is         *)
(* rendered true, so the render an accepted click sees is the current      *)
(* state.                                                                  *)
(***************************************************************************)
EXTENDS Integers, Sequences, FiniteSets, TLC

VARIABLES
  \* React state (lines 79-89) and the ref (line 91)
  testState, ping, downloadSpeed, uploadSpeed, currentSpeedDisplay, progress,
  ipAddress, testHistory, testStatus, isTesting, abortControllerRef,
  \* the page: whether the component is mounted, the JavaScript type of the
  \* value held in testHistory, and the item "speedTestHistory" of localStorage
  lifecycle, historyShape, localStorage,
  \* the running invocation of startAllTests
  pc,          \* the await the run is suspended at, "idle" when there is none
  captured,    \* ping, downloadSpeed, uploadSpeed, ipAddress of the clicked render
  nRuns,       \* invocations of startAllTests so far
  \* locals of runPingTest (lines 171-178, 195)
  conn, wsState, i, pingTimes,
  \* the probes whose 'ping' frame was sent and whose echo has not arrived
  pending,
  \* locals of runDownloadTest / runUploadTest (lines 261-262, 312-320)
  now, startTime, lastProgressTime, currentTime, downloadedBytes, uploadedBytes

vars == <<testState, ping, downloadSpeed, uploadSpeed, currentSpeedDisplay, progress,
          ipAddress, testHistory, testStatus, isTesting, abortControllerRef,
          lifecycle, historyShape, localStorage, pc, captured, nRuns, conn, wsState, i, pingTimes,
          pending,
          now, startTime, lastProgressTime, currentTime, downloadedBytes, uploadedBytes>>

----------------------------------------------------------------------------
\* Bounds of the model.

\* invocations of startAllTests explored
MaxRuns == 2
\* probes of the latency loop (the source runs 100, line 172)
numPings == 3
\* probes whose value is not recorded (the source discards 10, line 173)
warmUpPings == 1

\* Program constants.
testDuration == 10000
pingProgressEnd == 10
downloadProgressEnd == 60
uploadProgressEnd == 100

\* Inputs.
\* data.ip of the address lookup
IpAddresses == {"203.0.113.7"}
\* round-trip times of a probe, ms
Latencies == {20}
\* time the download's fetch or one read() takes, ms
Delays == {5000}
\* time one upload request takes, ms
UploadDelays == {4000}
\* the payload of the download (100,000,000 bytes) and the chunks read() yields
downloadPayload == 100000000 \div 64
ReadChunks == {50000000 \div 64, 100000000 \div 64}
\* const chunkSize = 1024 * 1024
chunkSize == (1024 * 1024) \div 64

----------------------------------------------------------------------------
\* Values.

\* the strings of a metric display: '-', 'N/A', 'Error', or x.toFixed(2)
Dash == [k |-> "-", v |-> 0]
NA == [k |-> "N/A", v |-> 0]
Error == [k |-> "Error", v |-> 0]
Str(hundredths) == [k |-> "num", v |-> hundredths]

\* number | null of a TestResult field
null == [k |-> "null", v |-> 0]
Number(hundredths) == [k |-> "number", v |-> hundredths]

\* parseFloat of a toFixed(2) string
parseFloat(s) == Number(s.v)

\* abortControllerRef.current: null, or a controller and its signal
NoController == [id |-> 0, aborted |-> FALSE]
AbortController(n) == [id |-> n, aborted |-> FALSE]

\* Math.round(n / d) and (n / d).toFixed(0) of a non-negative ratio
Round(n, d) == (2 * n + d) \div (2 * d)

\* the displays before any run, and after the resets of lines 366-369
NoValues == [ping |-> Dash, downloadSpeed |-> Dash, uploadSpeed |-> Dash, ipAddress |-> "-"]

----------------------------------------------------------------------------
\* Pure functions of the source.

\* updateOverallProgress without the stage's offset
updateOverallProgressNoOffset(stageStart, stageEnd, num, den) ==
  Round((stageEnd - stageStart) * num, den)

\* updateOverallProgress(stageStart, stageEnd, stageProgress) with
\* stageProgress = 100 * num / den
updateOverallProgress(stageStart, stageEnd, num, den) ==
  Round(stageStart * den + (stageEnd - stageStart) * num, den)

\* the rate with a megabit of 1,000,000 bits: 64 * 8 * 1000 * 100 / 1000000 = 256 / 5
speedMbpsDecimal(units, elapsed) == Round(units * 256, 5 * elapsed)

\* (bytes / (elapsed / 1000) / (1024 * 1024)) * 8, as toFixed(2) prints it;
\* units are 64-byte units, elapsed is ms (a multiple of 100):
\* 64 * 8 * 1000 * 100 / 1048576 / 100 = 125 / 256
speedMbps(units, elapsed) == Round(units * 125, 256 * (elapsed \div 100))

Min(a, b) == IF a < b THEN a ELSE b

RECURSIVE Sum(_)
Sum(s) == IF s = <<>> THEN 0 ELSE Head(s) + Sum(Tail(s))

\* the list left in the order of collection
sortMissing(times) == times

\* line 242: pingTimes.sort((a, b) => a - b)
sort(times) == SortSeq(times, LAMBDA a, b: a < b)

\* line 243: pingTimes[Math.floor(pingTimes.length / 2)] of the sorted list
median(times) == sort(times)[(Len(times) \div 2) + 1]

\* a filter that keeps every value
cleanedUnfiltered(times) == sort(times)

\* line 245: pingTimes.filter(t => t < Math.min(300, median * 3))
cleaned(times) == SelectSeq(sort(times), LAMBDA t: t < Min(300, median(times) * 3))

\* lines 236-253: the value runPingTest passes to setPing
pingResult(times) ==
  IF Len(times) = 0 THEN NA
  ELSE IF Len(cleaned(times)) = 0 THEN NA
       ELSE Str(Round(100 * Sum(cleaned(times)), Len(cleaned(times))))

\* lines 421-429: the record built in the finally block, from the clicked render
newResult(c) ==
  [ipAddress |-> IF c.ipAddress # "" /\ c.ipAddress # "-" THEN c.ipAddress ELSE "N/A",
   ping |-> IF c.ping.k \notin {"-", "N/A", "Error"} THEN parseFloat(c.ping) ELSE null,
   downloadSpeed |-> IF c.downloadSpeed.k \notin {"-", "N/A", "Error"}
                     THEN parseFloat(c.downloadSpeed) ELSE null,
   uploadSpeed |-> IF c.uploadSpeed.k \notin {"-", "N/A", "Error"}
                   THEN parseFloat(c.uploadSpeed) ELSE null]

\* an updater that puts the new record last
setTestHistoryAtEnd(result, prevHistory) == prevHistory \o <<result>>

\* line 433: setTestHistory((prevHistory) => [newResult, ...prevHistory])
setTestHistory(result, prevHistory) == <<result>> \o prevHistory

----------------------------------------------------------------------------
\* The state as one record, and its commit.

St ==
  [testState |-> testState, ping |-> ping, downloadSpeed |-> downloadSpeed,
   uploadSpeed |-> uploadSpeed, currentSpeedDisplay |-> currentSpeedDisplay,
   progress |-> progress, ipAddress |-> ipAddress, testHistory |-> testHistory,
   testStatus |-> testStatus, isTesting |-> isTesting,
   abortControllerRef |-> abortControllerRef, lifecycle |-> lifecycle,
   historyShape |-> historyShape, localStorage |-> localStorage,
   pc |-> pc, captured |-> captured,
   nRuns |-> nRuns, conn |-> conn, wsState |-> wsState,
   i |-> i, pingTimes |-> pingTimes, pending |-> pending, now |-> now, startTime |-> startTime,
   lastProgressTime |-> lastProgressTime, currentTime |-> currentTime,
   downloadedBytes |-> downloadedBytes, uploadedBytes |-> uploadedBytes]

Commit(s) ==
  /\ testState' = s.testState
  /\ ping' = s.ping
  /\ downloadSpeed' = s.downloadSpeed
  /\ uploadSpeed' = s.uploadSpeed
  /\ currentSpeedDisplay' = s.currentSpeedDisplay
  /\ progress' = s.progress
  /\ ipAddress' = s.ipAddress
  /\ testHistory' = s.testHistory
  /\ testStatus' = s.testStatus
  /\ isTesting' = s.isTesting
  /\ abortControllerRef' = s.abortControllerRef
  /\ lifecycle' = s.lifecycle
  /\ historyShape' = s.historyShape
  /\ localStorage' = s.localStorage
  /\ pc' = s.pc
  /\ captured' = s.captured
  /\ nRuns' = s.nRuns
  /\ conn' = s.conn
  /\ wsState' = s.wsState
  /\ i' = s.i
  /\ pingTimes' = s.pingTimes
  /\ pending' = s.pending
  /\ now' = s.now
  /\ startTime' = s.startTime
  /\ lastProgressTime' = s.lastProgressTime
  /\ currentTime' = s.currentTime
  /\ downloadedBytes' = s.downloadedBytes
  /\ uploadedBytes' = s.uploadedBytes

----------------------------------------------------------------------------
\* The stored history: the item "speedTestHistory" of localStorage.
\*
\* The item is a text, or absent.  A text is modelled by what JSON.parse makes
\* of it: kind "invalid" when it throws, else the JavaScript type of the
\* parsed value, with the elements of an array and the characters of a
\* string as items.  The state testHistory holds whatever value was passed to
\* setTestHistory: historyShape is its JavaScript type and the variable
\* testHistory holds its elements (array) or characters (string), the two
\* types that have a length and can be spread.

\* getItem returns null
Absent == [kind |-> "absent", items |-> <<>>]

\* one character of a stored string
Char(c) == [k |-> "char", v |-> c]

\* a record of an earlier session
storedResult ==
  [ipAddress |-> "198.51.100.9", ping |-> Number(1500), downloadSpeed |-> null,
   uploadSpeed |-> Number(4200)]

\* the contents the item may have when the page is opened
StoredTexts ==
  { Absent,
    [kind |-> "invalid", items |-> <<>>],
    [kind |-> "null", items |-> <<>>],
    [kind |-> "object", items |-> <<>>],
    [kind |-> "number", items |-> <<>>],
    [kind |-> "string", items |-> <<Char("a"), Char("b")>>],
    [kind |-> "array", items |-> <<>>],
    [kind |-> "array", items |-> <<storedResult>>] }

\* line 112: JSON.stringify(testHistory); the fields of a record are finite
\* numbers, null or a string, each of which is written as itself
stringify(shape, items) == [kind |-> shape, items |-> items]

\* a save effect that skips a history of one record
saveEffectFromSecond(s) ==
  IF s.lifecycle = "crashed" THEN s
  ELSE IF s.historyShape = "null" THEN [s EXCEPT !.lifecycle = "crashed"]
  ELSE IF s.historyShape \in {"array", "string"} /\ Len(s.testHistory) > 1
       THEN [s EXCEPT !.localStorage = stringify(s.historyShape, s.testHistory)]
       ELSE s

\* lines 110-115, run after a render in which testHistory changed: reading
\* .length of null throws in the effect, which takes the component tree down;
\* .length of an object or a number is undefined, and undefined > 0 is false
saveEffect(s) ==
  IF s.lifecycle = "crashed" THEN s
  ELSE IF s.historyShape = "null" THEN [s EXCEPT !.lifecycle = "crashed"]
  ELSE IF s.historyShape \in {"array", "string"} /\ Len(s.testHistory) > 0
       THEN [s EXCEPT !.localStorage = stringify(s.historyShape, s.testHistory)]
       ELSE s

\* lines 94-107: the parsed value is passed to setTestHistory whatever it is;
\* JSON.parse of an invalid text throws, and so does reading .length of null
\* (after setTestHistory(null)): the catch removes the item
loadEffect(s) ==
  LET text == s.localStorage
  IN IF text.kind = "absent" THEN s
     ELSE IF text.kind = "invalid" THEN [s EXCEPT !.localStorage = Absent]
     ELSE IF text.kind = "null"
          THEN [s EXCEPT !.historyShape = "null", !.testHistory = <<>>,
                         !.localStorage = Absent]
          ELSE [s EXCEPT !.historyShape = text.kind, !.testHistory = text.items]

\* the first render and its effects, in the order of the source: the load
\* effect, the save effect of the first render (testHistory is [] there, so
\* it writes nothing), then the save effect of the render with the loaded value
mount(s) == saveEffect(loadEffect([s EXCEPT !.lifecycle = "mounted"]))

\* line 433 as React applies it: the updater spreads the previous value, which
\* throws for a value that is not iterable; the error surfaces in the render
\* and takes the component tree down.  The save effect follows the render.
prependResult(s, result) ==
  IF s.historyShape \in {"array", "string"}
  THEN saveEffect([s EXCEPT !.testHistory = setTestHistory(result, s.testHistory),
                            !.historyShape = "array"])
  ELSE [s EXCEPT !.lifecycle = "crashed"]

----------------------------------------------------------------------------
\* startAllTests: the catch and finally blocks.

\* lines 398-412; kind is "AbortError", "Error" (with message 'Download test
\* failed', the only other error a stage throws) or "none" (the try completed)
catchBlock(s, kind) ==
  IF kind = "none" THEN s
  ELSE LET mark == IF kind = "AbortError" THEN NA ELSE Error
           markIp == IF kind = "AbortError" THEN "N/A" ELSE "Error"
       IN [s EXCEPT
             !.testStatus = IF kind = "AbortError" THEN "Test Aborted"
                            ELSE "Error: Download test failed",
             !.ping = IF s.captured.ping = Dash THEN mark ELSE s.ping,
             !.downloadSpeed = IF s.captured.downloadSpeed = Dash THEN mark
                               ELSE s.downloadSpeed,
             !.uploadSpeed = IF s.captured.uploadSpeed = Dash THEN mark
                             ELSE s.uploadSpeed,
             !.ipAddress = IF s.captured.ipAddress = "-" THEN markIp ELSE s.ipAddress]

\* lines 413-434; the locals of the invocation end with it, and the model
\* follows the socket of the running invocation only
finallyBlock(s) ==
  [prependResult(s, newResult(s.captured)) EXCEPT
     !.isTesting = FALSE,
     !.abortControllerRef = NoController,
     !.progress = 100,
     !.currentSpeedDisplay = 0,
     !.pc = "idle",
     !.captured = NoValues,
     !.conn = FALSE, !.wsState = "NONE", !.i = 0, !.pingTimes = <<>>,
     !.pending = {},
     !.now = 0, !.startTime = 0, !.lastProgressTime = 0, !.currentTime = 0,
     !.downloadedBytes = 0, !.uploadedBytes = 0]

\* a finally block that records the result only when the try block completed
finaliseRecordsCompletedOnly(s, kind) ==
  IF kind = "none" THEN finallyBlock(s)
  ELSE [finallyBlock(catchBlock(s, kind)) EXCEPT !.testHistory = s.testHistory,
                                                 !.localStorage = s.localStorage]

finalise(s, kind) == finallyBlock(catchBlock(s, kind))

----------------------------------------------------------------------------
\* runUploadTest.

\* lines 358-361 and 396-397: the final rate, then 'Test Complete!'
uploadFinal(s) ==
  LET final == Str(speedMbps(s.uploadedBytes, s.now - s.startTime))
  IN finalise([s EXCEPT
                 !.uploadSpeed = final,
                 !.progress = updateOverallProgress(downloadProgressEnd, uploadProgressEnd, 1, 1),
                 !.testStatus = "Test Complete!",
                 !.testState = "complete"], "none")

\* lines 318-341: the top of the upload loop, up to the awaited POST
uploadLoop(s) ==
  LET t == [s EXCEPT !.currentTime = s.now]
  IN IF t.currentTime - t.startTime >= testDuration THEN uploadFinal(t)
     ELSE [t EXCEPT !.pc = "ulFetch"]

\* lines 342-350: a POST completed after `delay` ms
uploadDone(s, delay) ==
  LET bytes == s.uploadedBytes + chunkSize
      elapsed == s.currentTime - s.startTime
      report == s.currentTime - s.lastProgressTime > 200
      speed == speedMbps(bytes, elapsed)
  IN uploadLoop([s EXCEPT
       !.now = s.now + delay,
       !.uploadedBytes = bytes,
       !.uploadSpeed = IF report THEN Str(speed) ELSE s.uploadSpeed,
       !.currentSpeedDisplay = IF report THEN speed ELSE s.currentSpeedDisplay,
       !.progress = IF report
                    THEN updateOverallProgress(downloadProgressEnd, uploadProgressEnd,
                                               Min(testDuration, elapsed), testDuration)
                    ELSE s.progress,
       !.lastProgressTime = IF report THEN s.currentTime ELSE s.lastProgressTime])

\* a catch that rethrows every failure, as the download's does
uploadFailedFatal(s, delay) == finalise(s, "Error")

\* lines 352-355: a POST failed after `delay` ms, not by cancellation
uploadFailed(s, delay) == uploadLoop([s EXCEPT !.now = s.now + delay])

\* lines 392-394 and 308-315
startUpload(s) ==
  uploadLoop([s EXCEPT
     !.testStatus = "Starting Upload Test...",
     !.testState = "uploading",
     !.now = 0, !.startTime = 0, !.lastProgressTime = 0, !.uploadedBytes = 0])

----------------------------------------------------------------------------
\* runDownloadTest.

\* lines 295-298, then the upload stage
downloadFinal(s) ==
  LET final == Str(speedMbps(s.downloadedBytes, s.now - s.startTime))
  IN startUpload([s EXCEPT
       !.downloadSpeed = final,
       !.progress = updateOverallProgress(pingProgressEnd, downloadProgressEnd, 1, 1)])

\* lines 274-292: read() yielded `value` after `delay` ms
downloadChunk(s, delay, value) ==
  LET bytes == s.downloadedBytes + value
      cur == s.now + delay
      elapsed == cur - s.startTime
      report == cur - s.lastProgressTime > 200
      speed == speedMbps(bytes, elapsed)
      t == [s EXCEPT
             !.now = cur,
             !.currentTime = cur,
             !.downloadedBytes = bytes,
             !.downloadSpeed = IF report THEN Str(speed) ELSE s.downloadSpeed,
             !.currentSpeedDisplay = IF report THEN speed ELSE s.currentSpeedDisplay,
             !.progress = IF report
                          THEN updateOverallProgress(pingProgressEnd, downloadProgressEnd,
                                                     Min(testDuration, elapsed), testDuration)
                          ELSE s.progress,
             !.lastProgressTime = IF report THEN cur ELSE s.lastProgressTime]
  IN IF elapsed >= testDuration THEN downloadFinal(t) ELSE [t EXCEPT !.pc = "dlRead"]

\* line 275: read() reported the end of the stream after `delay` ms
downloadEnd(s, delay) == downloadFinal([s EXCEPT !.now = s.now + delay])

\* a catch that logs the failure and lets the run go on, as the upload's does
downloadFailedLogged(s) == startUpload(s)

\* lines 299-303 and 398: a failure that is not a cancellation is rethrown as
\* Error('Download test failed'), which ends the try block of startAllTests
downloadFailed(s) == finalise(s, "Error")

\* lines 265-271: the response arrived after `delay` ms
downloadResponse(s, delay, ok) ==
  IF ok THEN [s EXCEPT !.now = s.now + delay, !.startTime = s.now + delay, !.pc = "dlRead"]
  ELSE downloadFailed(s)

\* lines 388-390 and 258-265, up to the awaited fetch
startDownload(s) ==
  [s EXCEPT
     !.testStatus = "Starting Download Test...",
     !.testState = "downloading",
     !.now = 0, !.startTime = 0, !.lastProgressTime = 0, !.downloadedBytes = 0,
     !.pc = "dlFetch"]

----------------------------------------------------------------------------
\* runPingTest.

\* lines 232-254, then the download stage
pingFinish(s) ==
  LET result == pingResult(s.pingTimes)
  IN startDownload([s EXCEPT
       !.wsState = IF s.conn THEN "CLOSED" ELSE s.wsState,
       !.pending = {},
       !.ping = result])

\* a loop that stops after the first probe
loopStopsEarly(k) == k < 1

\* line 195: the loop test
loopContinues(k) == k < numPings

\* lines 196-219: the start of probe s.i, up to its await
probe(s) ==
  IF s.conn /\ s.wsState = "OPEN"
  THEN [s EXCEPT !.pending = s.pending \cup {s.i}, !.pc = "wsWait"]
  ELSE [s EXCEPT !.pc = "httpPing"]

\* a loop that drops a probe without a measurement instead of penalising it
recordProbeDropsFailed(s, latency) ==
  [s EXCEPT
     !.pingTimes = IF s.i >= warmUpPings /\ latency >= 0
                   THEN Append(s.pingTimes, latency)
                   ELSE s.pingTimes,
     !.progress = updateOverallProgress(0, pingProgressEnd, s.i + 1, numPings),
     !.pc = "pingDelay"]

\* lines 221-229: probe s.i ended with `latency` (-1 for null), up to the 50 ms delay
recordProbe(s, latency) ==
  [s EXCEPT
     !.pingTimes = IF s.i >= warmUpPings
                   THEN Append(s.pingTimes, IF latency >= 0 THEN latency ELSE 1000)
                   ELSE s.pingTimes,
     !.progress = updateOverallProgress(0, pingProgressEnd, s.i + 1, numPings),
     !.pc = "pingDelay"]

\* lines 207-211: the echo of probe k arrives.  Every probe assigns its own
\* handler to conn.onmessage and the echo carries nothing that names its
\* probe, so the handler assigned last runs: during the wait of probe s.i it
\* sets that probe's latency; after the wait it sets the latency of a probe
\* that is already recorded, which has no effect
onmessage(s, k, latency) ==
  LET t == [s EXCEPT !.pending = s.pending \ {k}]
  IN IF s.pc = "wsWait" THEN recordProbe(t, latency) ELSE t

\* a loop without its i++
nextProbeSameIndex(s) ==
  IF loopContinues(s.i) THEN probe(s) ELSE pingFinish(s)

\* line 195 (i++ and the test) after the delay of line 229
nextProbe(s) ==
  LET t == [s EXCEPT !.i = s.i + 1]
  IN IF loopContinues(t.i) THEN probe(t) ELSE pingFinish(t)

\* lines 383-386 and 171-188: the address is set, the socket is created
startPing(s, ip) ==
  LET shown == IF ip = "" THEN "N/A" ELSE ip
  IN [s EXCEPT
        !.ipAddress = shown,
        !.testStatus = "Starting Ping Test...",
        !.conn = TRUE, !.wsState = "CONNECTING",
        !.i = 0, !.pingTimes = <<>>, !.pending = {},
        !.pc = "wsConnect"]

----------------------------------------------------------------------------
\* startAllTests up to its first await, and the click handler.

\* lines 366-382
startAllTests(s) ==
  [s EXCEPT
     !.captured = [ping |-> s.ping, downloadSpeed |-> s.downloadSpeed,
                   uploadSpeed |-> s.uploadSpeed, ipAddress |-> s.ipAddress],
     !.nRuns = s.nRuns + 1,
     !.ping = Dash, !.downloadSpeed = Dash, !.uploadSpeed = Dash, !.ipAddress = "-",
     !.progress = 0,
     !.testStatus = "Fetching IP Address...",
     !.testState = "pinging",
     !.isTesting = TRUE,
     !.abortControllerRef = AbortController(s.nRuns + 1),
     !.pc = "fetchIp"]

\* a handler bound whatever isTesting is
onClickUnguarded(s) == startAllTests(s)

\* line 470: onClick={!isTesting ? startAllTests : undefined}
onClick(s) == IF ~s.isTesting THEN startAllTests(s) ELSE s

\* lines 437-441
abortTest(s) ==
  IF s.abortControllerRef.id # 0
  THEN [s EXCEPT !.abortControllerRef.aborted = TRUE]
  ELSE s

----------------------------------------------------------------------------
\* Actions.

Init ==
  /\ testState = "idle"
  /\ ping = Dash /\ downloadSpeed = Dash /\ uploadSpeed = Dash
  /\ currentSpeedDisplay = 0
  /\ progress = 0
  /\ ipAddress = "-"
  /\ testHistory = <<>>
  /\ testStatus = "Ready"
  /\ isTesting = FALSE
  /\ abortControllerRef = NoController
  /\ lifecycle = "mounted" /\ historyShape = "array" /\ localStorage = Absent
  /\ pc = "idle"
  /\ captured = NoValues
  /\ nRuns = 0
  /\ conn = FALSE /\ wsState = "NONE" /\ i = 0 /\ pingTimes = <<>> /\ pending = {}
  /\ now = 0 /\ startTime = 0 /\ lastProgressTime = 0 /\ currentTime = 0
  /\ downloadedBytes = 0 /\ uploadedBytes = 0

Aborted == abortControllerRef.aborted

\* a click on the start circle
Click ==
  /\ lifecycle = "mounted"
  /\ nRuns < MaxRuns
  /\ Commit(onClick(St))

\* a call of abortTest
Abort ==
  /\ ~Aborted
  /\ Commit(abortTest(St))

\* fetchIpAddress returns data.ip, or null ("" here) on any failure; the request
\* carries no signal
FetchIpDone ==
  /\ pc = "fetchIp"
  /\ \E ip \in IpAddresses \cup {""} : Commit(startPing(St, ip))

\* line 182: onopen
WsOpen ==
  /\ pc = "wsConnect"
  /\ wsState = "CONNECTING"
  /\ Commit(probe([St EXCEPT !.wsState = "OPEN"]))

\* lines 183-186 and 189-193: onerror
WsError ==
  /\ pc = "wsConnect"
  /\ wsState = "CONNECTING"
  /\ Commit(probe([St EXCEPT !.wsState = "CLOSED", !.conn = FALSE]))

\* lines 187 and 189-193: the 5000 ms timer fires first; the socket stays as it is
WsTimeout ==
  /\ pc = "wsConnect"
  /\ wsState = "CONNECTING"
  /\ Commit(probe([St EXCEPT !.conn = FALSE]))

\* the socket abandoned by WsTimeout opens after all
WsLateOpen ==
  /\ pc \notin {"wsConnect", "idle", "fetchIp"}
  /\ wsState = "CONNECTING"
  /\ wsState' = "OPEN"
  /\ UNCHANGED <<testState, ping, downloadSpeed, uploadSpeed, currentSpeedDisplay,
                 progress, ipAddress, testHistory, testStatus, isTesting,
                 abortControllerRef, lifecycle, historyShape, localStorage,
                 pc, captured, nRuns, conn, i, pingTimes, pending,
                 now, startTime, lastProgressTime, currentTime, downloadedBytes,
                 uploadedBytes>>

\* the peer closes the open socket during the latency stage
WsDrop ==
  /\ pc \in {"wsWait", "pingDelay"}
  /\ wsState = "OPEN"
  /\ wsState' = "CLOSED"
  /\ pending' = {}
  /\ UNCHANGED <<testState, ping, downloadSpeed, uploadSpeed, currentSpeedDisplay,
                 progress, ipAddress, testHistory, testStatus, isTesting,
                 abortControllerRef, lifecycle, historyShape, localStorage,
                 pc, captured, nRuns, conn, i, pingTimes,
                 now, startTime, lastProgressTime, currentTime, downloadedBytes,
                 uploadedBytes>>

\* lines 207-211: onmessage; the echo of any probe still pending arrives
WsMessage ==
  /\ pc \in {"wsWait", "pingDelay"}
  /\ wsState = "OPEN"
  /\ \E k \in pending, latency \in Latencies : Commit(onmessage(St, k, latency))

\* lines 203-206: the 2000 ms timer; latency stays null
WsPingTimeout ==
  /\ pc = "wsWait"
  /\ Commit(recordProbe(St, -1))

\* lines 152-155: the HEAD request completed
HttpPingDone ==
  /\ pc = "httpPing"
  /\ ~Aborted
  /\ \E latency \in Latencies : Commit(recordProbe(St, latency))

\* lines 160-161: the HEAD request failed
HttpPingFail ==
  /\ pc = "httpPing"
  /\ ~Aborted
  /\ Commit(recordProbe(St, -1))

\* line 229: the 50 ms timer
PingDelayDone ==
  /\ pc = "pingDelay"
  /\ Commit(nextProbe(St))

\* line 265
DownloadResponse ==
  /\ pc = "dlFetch"
  /\ ~Aborted
  /\ \E delay \in Delays, ok \in BOOLEAN : Commit(downloadResponse(St, delay, ok))

\* line 274, a chunk
DownloadChunk ==
  /\ pc = "dlRead"
  /\ ~Aborted
  /\ \E delay \in Delays, value \in ReadChunks :
       /\ downloadedBytes + value <= downloadPayload
       /\ Commit(downloadChunk(St, delay, value))

\* line 274, done
DownloadEnd ==
  /\ pc = "dlRead"
  /\ ~Aborted
  /\ downloadedBytes >= downloadPayload
  /\ \E delay \in Delays : Commit(downloadEnd(St, delay))

\* line 274 rejects; lines 299-302
DownloadReadError ==
  /\ pc = "dlRead"
  /\ ~Aborted
  /\ Commit(downloadFailed(St))

\* line 334
UploadDone ==
  /\ pc = "ulFetch"
  /\ ~Aborted
  /\ \E delay \in UploadDelays : Commit(uploadDone(St, delay))

\* lines 352-355
UploadFailed ==
  /\ pc = "ulFetch"
  /\ ~Aborted
  /\ \E delay \in UploadDelays : Commit(uploadFailed(St, delay))

\* the signal aborts the pending fetch or read, or was aborted before the call,
\* and the await throws: lines 157-159, 300, 353
AbortError ==
  /\ pc \in {"httpPing", "dlFetch", "dlRead", "ulFetch"}
  /\ Aborted
  /\ Commit(finalise(St, "AbortError"))

Next ==
  \/ Click
  \/ Abort
  \/ FetchIpDone
  \/ WsOpen
  \/ WsError
  \/ WsTimeout
  \/ WsLateOpen
  \/ WsDrop
  \/ WsMessage
  \/ WsPingTimeout
  \/ HttpPingDone
  \/ HttpPingFail
  \/ PingDelayDone
  \/ DownloadResponse
  \/ DownloadChunk
  \/ DownloadEnd
  \/ DownloadReadError
  \/ UploadDone
  \/ UploadFailed
  \/ AbortError

Spec == Init /\ [][Next]_vars

\* The awaits of a run.
Awaits == {"fetchIp", "wsConnect", "wsWait", "httpPing", "pingDelay",
           "dlFetch", "dlRead", "ulFetch"}

\* The await the run is suspended at completes: the network operation
\* responds, fails or is aborted, or the timer fires.  The run is then
\* suspended at another await or has ended, or, in the read loop and the
\* upload loop, is at the same await of a later iteration, at a later time.
\* Fairness is on the steps that change <<pc, now>>, which are exactly the
\* steps of Next that complete an await.
AwaitCompletes ==
  /\ pc \in Awaits
  /\ pc' \in Awaits \cup {"idle"}
  /\ now' \in {0, now} \cup {now + delay : delay \in Delays \cup UploadDelays}

FairSpec == Init /\ [][Next]_vars /\ WF_<<pc, now>>(AwaitCompletes)

----------------------------------------------------------------------------
\* The page over its lifetime: opened with any stored content, closed and
\* reopened.

\* the state of a page that is not open: nothing but the stored item (and the
\* count of invocations the model keeps) outlives it
unmount(s) ==
  [s EXCEPT
     !.lifecycle = "unmounted",
     !.testState = "idle", !.ping = Dash, !.downloadSpeed = Dash, !.uploadSpeed = Dash,
     !.currentSpeedDisplay = 0, !.progress = 0, !.ipAddress = "-",
     !.testHistory = <<>>, !.historyShape = "array", !.testStatus = "Ready",
     !.isTesting = FALSE, !.abortControllerRef = NoController,
     !.pc = "idle", !.captured = NoValues,
     !.conn = FALSE, !.wsState = "NONE", !.i = 0, !.pingTimes = <<>>,
     !.pending = {},
     !.now = 0, !.startTime = 0, !.lastProgressTime = 0, !.currentTime = 0,
     !.downloadedBytes = 0, !.uploadedBytes = 0]

\* the component is rendered for the first time: lines 79-115
Mount ==
  /\ lifecycle = "unmounted"
  /\ Commit(mount(St))

\* the page is closed or reloaded: the cleanup of lines 444-450 aborts a run in
\* flight, whose later state updates reach no component
Unmount ==
  /\ lifecycle # "unmounted"
  /\ Commit(unmount(St))

StoreInit ==
  /\ testState = "idle"
  /\ ping = Dash /\ downloadSpeed = Dash /\ uploadSpeed = Dash
  /\ currentSpeedDisplay = 0
  /\ progress = 0
  /\ ipAddress = "-"
  /\ testHistory = <<>>
  /\ testStatus = "Ready"
  /\ isTesting = FALSE
  /\ abortControllerRef = NoController
  /\ lifecycle = "unmounted" /\ historyShape = "array"
  /\ localStorage \in StoredTexts
  /\ pc = "idle"
  /\ captured = NoValues
  /\ nRuns = 0
  /\ conn = FALSE /\ wsState = "NONE" /\ i = 0 /\ pingTimes = <<>> /\ pending = {}
  /\ now = 0 /\ startTime = 0 /\ lastProgressTime = 0 /\ currentTime = 0
  /\ downloadedBytes = 0 /\ uploadedBytes = 0

\* the runs of a page whose echo endpoint refuses the connection: the latency
\* stage goes over header-only requests, the other stages as in Next
StoreNext ==
  \/ Mount
  \/ Unmount
  \/ Click
  \/ Abort
  \/ FetchIpDone
  \/ WsError
  \/ HttpPingDone
  \/ HttpPingFail
  \/ PingDelayDone
  \/ DownloadResponse
  \/ DownloadChunk
  \/ DownloadEnd
  \/ DownloadReadError
  \/ UploadDone
  \/ UploadFailed
  \/ AbortError

StoreSpec == StoreInit /\ [][StoreNext]_vars

----------------------------------------------------------------------------
\* The two formulas on their own: the aggregation of the latency stage applied
\* to any list of recorded values, and the rate formula applied to any byte
\* count and elapsed time.

\* length of the lists of recorded values explored (the source records 90)
MaxSamples == 3
\* recorded values, ms: round-trip times and the penalty
SampleValues == {20, 50, 100, 300, 1000}
SampleLists == UNION {[1..n -> SampleValues] : n \in 0..MaxSamples}
\* bytes transferred, in 64-byte units: none, 1 MiB, 50, 100 and 125 million bytes
ByteCounts == {0, 1048576 \div 64, 50000000 \div 64, 100000000 \div 64, 125000000 \div 64}
\* elapsed times, ms
ElapsedTimes == {100, 1000, 5000, 10000}

FormulaInit ==
  /\ testState = "idle"
  /\ ping = Dash /\ downloadSpeed = Dash /\ uploadSpeed = Dash
  /\ currentSpeedDisplay = 0
  /\ progress = 0
  /\ ipAddress = "-"
  /\ testHistory = <<>>
  /\ testStatus = "Ready"
  /\ isTesting = FALSE
  /\ abortControllerRef = NoController
  /\ lifecycle = "mounted" /\ historyShape = "array" /\ localStorage = Absent
  /\ pc = "aggregate"
  /\ captured = NoValues
  /\ nRuns = 0
  /\ conn = FALSE /\ wsState = "NONE" /\ i = 0 /\ pending = {}
  /\ pingTimes \in SampleLists
  /\ now \in ElapsedTimes
  /\ startTime = 0 /\ lastProgressTime = 0 /\ currentTime = 0
  /\ downloadedBytes \in ByteCounts
  /\ uploadedBytes = 0

\* lines 236-253 applied to the recorded values
Aggregate ==
  /\ pc = "aggregate"
  /\ Commit([St EXCEPT !.ping = pingResult(pingTimes), !.pc = "measure"])

\* lines 295-297 applied to the byte count and the elapsed time
Measure ==
  /\ pc = "measure"
  /\ Commit([St EXCEPT !.downloadSpeed = Str(speedMbps(downloadedBytes, now - startTime)),
                       !.pc = "measured"])

FormulaNext == Aggregate \/ Measure

FormulaSpec == FormulaInit /\ [][FormulaNext]_vars

----------------------------------------------------------------------------
\* Vocabulary of the properties.

\* the step in which the running invocation leaves its finally block
Finalising == pc # "idle" /\ pc' = "idle"

\* the record that step adds
Added == testHistory'[1]

PingStage == {"fetchIp", "wsConnect", "wsWait", "httpPing", "pingDelay"}
DownloadStage == {"dlFetch", "dlRead"}
UploadStage == {"ulFetch"}

\* What the stages of the finalising invocation produced, read off the step:
\* the ping display is '-' until runPingTest sets it; the download display is
\* the final rate once testState is 'uploading'; the upload's final rate is set
\* in the finalising step itself, with testState 'complete'.
AsNumber(shown) == IF shown.k = "num" THEN parseFloat(shown) ELSE null
RunPing == AsNumber(ping)
RunDownload == IF testState = "uploading" THEN AsNumber(downloadSpeed) ELSE null
RunUpload == IF testState' = "complete" THEN AsNumber(uploadSpeed') ELSE null

----------------------------------------------------------------------------
\* Properties.

\* C1: every invocation of startAllTests adds exactly one record, whatever its
\* outcome: with no run in progress the history holds as many records as there
\* were invocations, and during a run one less.
C1_OneRecordPerRun ==
  Len(testHistory) = IF pc = "idle" THEN nRuns ELSE nRuns - 1

\* a second run, cancelled, has finalised: two invocations, two records
C1_Witness ==
  /\ pc = "idle"
  /\ nRuns = 2
  /\ Len(testHistory) = 2
  /\ testStatus = "Test Aborted"

\* C2: the record of a run cancelled during the download stage (while a read of
\* the stream is pending) has no download and no upload rate, and has the
\* latency this run measured.
C2_CancelledDownloadRecord ==
  [][(pc = "dlRead" /\ Finalising /\ abortControllerRef.aborted)
       => /\ Added.downloadSpeed = null
          /\ Added.uploadSpeed = null
          /\ (ping.k = "num" => Added.ping = parseFloat(ping))]_vars

\* C3: the record of a run whose download failed has the latency this run
\* measured and no download or upload rate.
C3_FailedDownloadRecord ==
  [][(pc \in DownloadStage /\ Finalising /\ testStatus' = "Error: Download test failed")
       => /\ Added.ping = RunPing
          /\ Added.downloadSpeed = null
          /\ Added.uploadSpeed = null]_vars

\* C4: the record of a run holds what this run measured: each metric is a
\* number exactly when its stage produced one, and the address is the one this
\* run resolved.
C4_RecordIsThisRun ==
  [][Finalising
       => Added = [ipAddress |-> ipAddress, ping |-> RunPing,
                   downloadSpeed |-> RunDownload, uploadSpeed |-> RunUpload]]_vars

\* C5: within a run the progress never decreases, and it is 100 when the run
\* has finalised.
C5_Progress ==
  [][/\ pc # "idle" => progress' >= progress
     /\ Finalising => progress' = 100]_vars

\* the upload stage has reported progress between 60 and 100
C5_Witness ==
  /\ pc = "ulFetch"
  /\ progress > downloadProgressEnd
  /\ progress < uploadProgressEnd

\* C6: while a run is active no step starts another invocation or replaces the
\* run's controller; the controller is the one created by the latest
\* invocation, and isTesting is set exactly while a run is active.
C6_SingleRun ==
  /\ [](isTesting <=> pc # "idle")
  /\ [](pc # "idle" => abortControllerRef.id = nRuns)
  /\ [][pc # "idle"
          => /\ nRuns' = nRuns
             /\ abortControllerRef'.id \in {abortControllerRef.id, 0}]_vars

\* a run is active and the click budget is not used up: a click can arrive
C6_Witness ==
  /\ pc = "dlRead"
  /\ isTesting
  /\ nRuns < MaxRuns
  /\ abortControllerRef.id = nRuns

\* C7: after abortTest no further duplex probe is sent, and the run finalises
\* with status 'Test Aborted'.  (A fetch or read issued on the aborted signal
\* is not counted as started: it throws at once.)
C7_CancelUnwinds ==
  [][abortControllerRef.aborted
       => /\ ~(pc # "wsWait" /\ pc' = "wsWait")
          /\ (Finalising => testStatus' = "Test Aborted")]_vars

\* C8: the stages run in the order latency, download, upload: the download is
\* requested only after all probes and setPing, the upload only after the final
\* download rate, and 'complete' is set only with the final upload rate.
C8_StagesInOrder ==
  /\ pc \in PingStage
       => /\ testState = "pinging"
          /\ ping = Dash /\ downloadSpeed = Dash /\ uploadSpeed = Dash
          /\ i < numPings
  /\ pc \in DownloadStage
       => /\ testState = "downloading"
          /\ i = numPings /\ ping # Dash
          /\ ~(conn /\ wsState = "OPEN")
          /\ progress >= pingProgressEnd
          /\ uploadSpeed = Dash
  /\ pc \in UploadStage
       => /\ testState = "uploading"
          /\ i = numPings /\ ping # Dash
          /\ downloadSpeed.k = "num"
          /\ progress >= downloadProgressEnd
  /\ testState = "complete"
       => /\ pc = "idle"
          /\ downloadSpeed.k = "num" /\ uploadSpeed.k = "num"

\* the second upload request is in flight
C8_Witness ==
  /\ pc = "ulFetch"
  /\ uploadedBytes > 0

\* C9: whenever the click handler is bound to startAllTests, testState is
\* 'idle' or 'complete'.
C9_StartOnlyFromIdleOrComplete ==
  ~isTesting => testState \in {"idle", "complete"}

\* C10: after a cancelled or failed run the display of a metric measured in
\* this run still shows its value: 'N/A' and 'Error' replace only the displays
\* of metrics this run did not measure.
C10_PartialDisplayKept ==
  [][(Finalising /\ testState' # "complete")
       => /\ ping.k = "num" => ping' = ping
          /\ testState = "uploading" => downloadSpeed' = downloadSpeed]_vars

----------------------------------------------------------------------------
\* Properties of the stored history (checked under StoreSpec).

\* the step in which the component is rendered for the first time
Mounting == lifecycle = "unmounted" /\ lifecycle' = "mounted"

\* C11: loading the history at startup is never fatal: whatever the stored item
\* holds that is not a list of records (nothing, a text that is not JSON, or
\* JSON that is not a list), the component mounts with a history that is an
\* empty list, and nothing a later run does takes the component down.
C11_CorruptStoreIsEmptyLog ==
  /\ [][(lifecycle = "unmounted" /\ localStorage.kind # "array")
          => (Mounting /\ historyShape' = "array" /\ testHistory' = <<>>)]_vars
  /\ [](lifecycle # "crashed")

\* C12: the history is changed only by prepending.  While the component is
\* mounted, a step that changes the history is the end of an invocation and
\* puts that invocation's record in front of the history as it was, every
\* earlier item (loaded at startup or added since) unchanged and in its place.
C12_PrependOnly ==
  [][(lifecycle = "mounted" /\ lifecycle' # "unmounted" /\ testHistory' # testHistory)
       => /\ Finalising
          /\ testHistory' = <<newResult(captured)>> \o testHistory]_vars

\* two runs after a start with one stored record: the two new records, the
\* newer first, then the stored one
C12_Witness ==
  /\ lifecycle = "mounted"
  /\ Len(testHistory) = 3
  /\ testHistory[3] = storedResult
  /\ testHistory[1] # testHistory[2]
  /\ testHistory[2] = newResult(NoValues)

\* what a load of the stored item would put into the history
Stored == localStorage.items

\* the stored item is a list of records, or there is none
ValidStore == localStorage.kind \in {"absent", "array"}

----------------------------------------------------------------------------
\* Properties of the two formulas (checked under FormulaSpec).

\* the trim threshold of a non-empty list of recorded values
Threshold(times) == Min(300, 3 * median(times))

\* the orderings of a list
Orderings(times) ==
  LET n == Len(times)
      Shuffles == {f \in [1..n -> 1..n] : \A a, b \in 1..n : f[a] = f[b] => a = b}
  IN {[k \in 1..n |-> times[f[k]]] : f \in Shuffles}

\* C14: if every recorded value exceeds the trim threshold min(300, 3 x median),
\* the latency stage reports 'N/A', never zero or a negative number.
C14_AllTrimmedIsNA ==
  (pc # "aggregate" /\ pingTimes # <<>>
     /\ \A k \in 1..Len(pingTimes) : pingTimes[k] > Threshold(pingTimes))
    => ping = NA

\* three recorded values, each above the threshold, aggregated
C14_Witness ==
  /\ pc # "aggregate"
  /\ Len(pingTimes) = 3
  /\ \A k \in 1..3 : pingTimes[k] > Threshold(pingTimes)
  /\ ping = NA

\* C15: the aggregation depends only on the multiset of recorded values: every
\* ordering of the recorded values has the same median, the same retained
\* values and the same reported result.
C15_OrderIndependent ==
  pc # "aggregate"
    => \A other \in Orderings(pingTimes) :
         /\ pingTimes # <<>> => median(other) = median(pingTimes)
         /\ cleaned(other) = cleaned(pingTimes)
         /\ pingResult(other) = ping

\* an unsorted list of three different values, one of them trimmed, aggregated
C15_Witness ==
  /\ pc # "aggregate"
  /\ pingTimes = <<1000, 20, 50>>
  /\ ping = Str(3500)

\* C16: the rate formula is non-decreasing in the bytes for a fixed elapsed
\* time and non-increasing in the elapsed time for a fixed byte count, and
\* 125,000,000 bytes in 10 s give 95.37.
C16_RateMonotone ==
  pc = "measured"
    => /\ downloadSpeed = Str(speedMbps(downloadedBytes, now))
       /\ \A b \in ByteCounts :
            b >= downloadedBytes => speedMbps(b, now) >= downloadSpeed.v
       /\ \A e \in ElapsedTimes :
            e >= now => speedMbps(downloadedBytes, e) <= downloadSpeed.v
       /\ (downloadedBytes = 125000000 \div 64 /\ now = 10000)
            => downloadSpeed = Str(9537)

\* the rate of 125,000,000 bytes in 10 s, computed
C16_Witness ==
  /\ pc = "measured"
  /\ downloadedBytes = 125000000 \div 64
  /\ now = 10000
  /\ downloadSpeed = Str(9537)

\* the values the claim retains: those that do not exceed the threshold
Retained(times) == SelectSeq(sort(times), LAMBDA t: ~(t > Threshold(times)))

\* C17: the latency stage discards a recorded value if and only if it exceeds
\* min(300, 3 x median), a value equal to the threshold being retained, and
\* reports the average of the remaining values; recorded values all equal to
\* some v <= 300 give v.
C17_TrimmedMean ==
  (pc # "aggregate" /\ pingTimes # <<>>)
    => /\ cleaned(pingTimes) = Retained(pingTimes)
       /\ ping = IF Retained(pingTimes) = <<>> THEN NA
                 ELSE Str(Round(100 * Sum(Retained(pingTimes)), Len(Retained(pingTimes))))
       /\ \A v \in SampleValues :
            (v <= 300 /\ \A k \in 1..Len(pingTimes) : pingTimes[k] = v)
              => ping = Str(100 * v)

----------------------------------------------------------------------------
\* Properties of the latency loop (checked under Spec).

\* probes of the running latency stage that have completed
Completed == IF pc = "pingDelay" THEN i + 1 ELSE i

\* the probe of the running latency stage is awaited
Probing == pc \in {"wsWait", "httpPing"}

\* C18: after k probes have completed the sample list holds exactly
\* max(0, k - warmUpPings) values: the warm-up probes contribute none, every
\* later probe exactly one, which is a measured round-trip time or the
\* penalty 1000.  A probe ended by cancellation contributes none: the stage
\* reports no latency.
C18_SamplesPerProbe ==
  /\ []((Probing \/ pc = "pingDelay")
         => /\ Len(pingTimes) = IF Completed > warmUpPings THEN Completed - warmUpPings ELSE 0
            /\ \A k \in 1..Len(pingTimes) : pingTimes[k] \in Latencies \cup {1000})
  /\ [][(Probing /\ pc' = "pingDelay")
          => pingTimes' \in {pingTimes} \cup {Append(pingTimes, v) : v \in Latencies \cup {1000}}]_vars
  /\ [][(Probing /\ Finalising) => ping'.k # "num"]_vars

\* the last probe has completed: one measured value and one penalty recorded
C18_Witness ==
  /\ pc = "pingDelay"
  /\ i = numPings - 1
  /\ Len(pingTimes) = numPings - warmUpPings
  /\ \E a, b \in 1..Len(pingTimes) : pingTimes[a] = 1000 /\ pingTimes[b] \in Latencies

\* C19: a probe whose duplex exchange yields no measurement falls back to the
\* header-only request before its outcome is recorded: no probe goes from the
\* wait for the duplex response straight to a recorded penalty.
C19_FallbackBeforePenalty ==
  [][(pc = "wsWait" /\ pc' = "pingDelay" /\ i >= warmUpPings)
       => pingTimes'[Len(pingTimes')] # 1000]_vars

\* C20: the duplex connection never outlives the latency stage: once the stage
\* has ended, by completing or by cancellation, the socket it created is not
\* open, and does not become open.
C20_SocketClosedAfterStage ==
  /\ [](pc \in DownloadStage \cup UploadStage => wsState # "OPEN")
  /\ [][(pc \in PingStage /\ Finalising) => wsState # "OPEN"]_vars

----------------------------------------------------------------------------
\* Properties of the transfer stages (checked under Spec).

\* C21: a failure of the download stage that is not a cancellation is fatal to
\* the run.  A run that ends in the download stage never became 'uploading'
\* or 'complete', and its status is 'Error: Download test failed' unless it
\* was cancelled, when it is 'Test Aborted'; the upload stage starts only from
\* a download that was read to its end, never from a failed or cancelled one.
C21_DownloadFailureFatal ==
  /\ [][(pc \in DownloadStage /\ Finalising)
          => /\ testState' = "downloading"
             /\ testStatus' = IF Aborted THEN "Test Aborted"
                               ELSE "Error: Download test failed"]_vars
  /\ [][(pc \in DownloadStage /\ pc' \notin DownloadStage /\ ~Finalising)
          => /\ pc = "dlRead" /\ pc' \in UploadStage
             /\ ~Aborted
             /\ downloadedBytes' >= downloadPayload
             /\ downloadSpeed'.k = "num"]_vars
  /\ [](testStatus = "Error: Download test failed"
         => pc = "idle" /\ testState = "downloading")

\* a run ended by a failed download: reported as an error, one record added
C21_Witness ==
  /\ pc = "idle"
  /\ testStatus = "Error: Download test failed"
  /\ testState = "downloading"
  /\ ~isTesting
  /\ Len(testHistory) = nRuns

\* the elapsed times the pending upload request can end at
UploadEnds == {now + delay - startTime : delay \in UploadDelays}

\* C22: a failed upload request that is not a cancellation ends neither the
\* stage nor the run.  While the stage goes on, a request that ends leaves the
\* byte counter as it was (failed) or one block higher (completed), and the
\* test duration has not elapsed; the stage ends without a cancellation only
\* once the duration has elapsed, with the run 'complete' and the final rate
\* that of the blocks that completed; only a cancellation ends it earlier.
C22_UploadFailureNotFatal ==
  /\ [][(pc \in UploadStage /\ pc' \in UploadStage /\ now' # now)
          => /\ uploadedBytes' \in {uploadedBytes, uploadedBytes + chunkSize}
             /\ now' - startTime' < testDuration
             /\ testState' = "uploading"]_vars
  /\ [][(pc \in UploadStage /\ Finalising /\ ~Aborted)
          => /\ testState' = "complete"
             /\ testStatus' = "Test Complete!"
             /\ \E e \in UploadEnds :
                  /\ e >= testDuration
                  /\ uploadSpeed' \in {Str(speedMbps(uploadedBytes, e)),
                                        Str(speedMbps(uploadedBytes + chunkSize, e))}]_vars
  /\ [][(pc \in UploadStage /\ Finalising /\ Aborted)
          => testState' = "uploading" /\ testStatus' = "Test Aborted"]_vars

\* a complete run whose three upload requests moved two blocks: one failed
C22_Witness ==
  /\ pc = "idle"
  /\ testState = "complete"
  /\ testStatus = "Test Complete!"
  /\ uploadSpeed = Str(speedMbps(2 * chunkSize, 12000))

----------------------------------------------------------------------------
\* Properties of the duplex exchange and of termination.

\* the step records a measured round-trip time for the probe that is waiting
\* for its echo
RecordsEcho ==
  /\ pc = "wsWait" /\ pc' = "pingDelay"
  /\ Len(pingTimes') = Len(pingTimes) + 1
  /\ pingTimes'[Len(pingTimes')] # 1000

\* C23: a round-trip time recorded for probe i on the duplex path is measured
\* from the echo of probe i's own message: when it is recorded that echo has
\* arrived, and the echo of no earlier probe is taken in its place.
C23_OwnEchoOnly ==
  [][RecordsEcho => (i \notin pending' /\ pending' = pending \ {i})]_vars

\* invocation n of startAllTests has left its finally block, and no later
\* invocation has started
Finalised(n) ==
  /\ pc = "idle"
  /\ nRuns = n
  /\ ~isTesting
  /\ abortControllerRef = NoController
  /\ Len(testHistory) = n

\* C24: every started run eventually finalises.  If every await of a run
\* eventually completes, invocation n of startAllTests reaches the end of its
\* finally block, after which isTesting is false, the controller is cleared
\* and the history holds one record for each of the n invocations.
C24_EveryRunFinalises ==
  \A n \in 1..MaxRuns : (nRuns = n /\ pc # "idle") ~> Finalised(n)

\* the last invocation explored was cancelled, and has finalised
C24_Witness ==
  /\ Finalised(MaxRuns)
  /\ testStatus = "Test Aborted"
====
